---- MODULE Spec2Model ----
(***************************************************************************)
(* A model of src/character.rs: the Character struct, its attribute map,   *)
(* its six equipment slots and the derived attack damage.                  *)
(*                                                                         *)
(* Option<T> is modelled as a sequence of length 0 (None) or 1 (Some(x)).  *)
(* A panic (unwrap/expect on a missing key, assert_eq! on a wrong item     *)
(* type) ends the run: `panicked` records its kind and no operation is     *)
(* enabled afterwards.                                                     *)
(*                                                                         *)
(* AttributeValue is i64 (attack_damage adds it to an i64).  All values of *)
(* the model stay far below 2^21, so neither the i64 additions overflow    *)
(* nor does `as f64` lose precision; both are outside the checked range.   *)
(***************************************************************************)
EXTENDS Integers, Sequences, FiniteSets

VARIABLES name, health, attributes,
          armor_slot_head, armor_slot_chest, armor_slot_legs, armor_slot_feet,
          weapon_slot_left, weapon_slot_right, inventory,
          panicked, last, steps

vars == <<name, health, attributes,
          armor_slot_head, armor_slot_chest, armor_slot_legs, armor_slot_feet,
          weapon_slot_left, weapon_slot_right, inventory,
          panicked, last, steps>>

slots == <<armor_slot_head, armor_slot_chest, armor_slot_legs, armor_slot_feet,
           weapon_slot_left, weapon_slot_right>>

-----------------------------------------------------------------------------
(* Bounds and input sets                                                   *)

\* Number of mutating calls (update_attribute, slot setters) in one run.
MaxSteps == 2

\* Magnitude of the values swept through the 0.2-scaled terms in SpecScaled.
MaxScaled == 40

Names == {"Michael", "Wil Wheaton"}

\* Values handed to update_attribute in Spec.
UpdateValues == {-7, 42}

ScaledRange == (0 - MaxScaled)..MaxScaled

-----------------------------------------------------------------------------
(* Types                                                                   *)

Attribute == {"Charisma", "Constitution", "Defense", "Dexterity", "Intelligence",
              "Luck", "Perception", "Strength", "Willpower", "Wisdom"}

ItemType == {"ArmorHead", "ArmorChest", "ArmorLegs", "ArmorFeet",
             "WeaponSword", "WeaponHammer"}

None == <<>>
Some(x) == <<x>>

ItemInfluence(attribute, amount) == [attribute |-> attribute, amount |-> amount]

Item(item_type, influence) == [item_type |-> item_type, influence |-> influence]

NoPanic == "none"

-----------------------------------------------------------------------------
(* f64 arithmetic of attack_damage.                                        *)
(*                                                                         *)
(* A non-negative f64 operand or exact product is held as an integer       *)
(* significand scaled by 2^-54, written as little-endian limbs of LimbBits *)
(* bits, so that no intermediate value leaves the model checker's integer  *)
(* range.  The f64 nearest to 0.2 is 3602879701896397 * 2^-54.             *)

LimbBits == 9
LimbBase == 2 ^ LimbBits

\* const DEXTERITY_INFLUENCE: f64 = 0.2  (0x3FC999999999999A)
DEXTERITY_INFLUENCE == <<205, 102, 307, 409, 204, 102>>

\* 1_f64 = 2^54 * 2^-54
ONE_F64 == <<0, 0, 0, 0, 0, 0, 1>>

\* Limbs below the binary point.
FractionLimbs == Len(DEXTERITY_INFLUENCE)

\* Significand width of f64.
F64_MANTISSA_DIGITS == 53

RECURSIVE MulLimbs(_, _, _)
\* The exact product a * limbs, a >= 0 an integer (schoolbook, with carry).
MulLimbs(a, limbs, carry) ==
    IF limbs = <<>>
    THEN IF carry = 0 THEN <<>>
         ELSE <<carry % LimbBase>> \o MulLimbs(a, <<>>, carry \div LimbBase)
    ELSE LET t == a * Head(limbs) + carry
         IN  <<t % LimbBase>> \o MulLimbs(a, Tail(limbs), t \div LimbBase)

RECURSIVE BitLength(_)
BitLength(x) == IF x = 0 THEN 0 ELSE 1 + BitLength(x \div 2)

RECURSIVE LimbsBitLength(_)
LimbsBitLength(p) ==
    IF p = <<>> THEN 0
    ELSE IF p[Len(p)] = 0 THEN LimbsBitLength(SubSeq(p, 1, Len(p) - 1))
    ELSE (Len(p) - 1) * LimbBits + BitLength(p[Len(p)])

Bit(p, i) ==
    IF i \div LimbBits + 1 > Len(p) THEN 0
    ELSE (p[i \div LimbBits + 1] \div (2 ^ (i % LimbBits))) % 2

LowBitsZero(p, n) == \A i \in 0..(n - 1) : Bit(p, i) = 0

ClearLowBits(p, n) ==
    [j \in 1..Len(p) |->
        IF j <= n \div LimbBits THEN 0
        ELSE IF j = n \div LimbBits + 1 THEN p[j] - (p[j] % (2 ^ (n % LimbBits)))
        ELSE p[j]]

RECURSIVE AddAt(_, _, _)
AddAt(p, j, c) ==
    IF c = 0 THEN p
    ELSE IF j > Len(p) THEN Append(p, c)
    ELSE LET t == p[j] + c
         IN  AddAt([p EXCEPT ![j] = t % LimbBase], j + 1, t \div LimbBase)

\* The exact product rounded to an f64: the top 53 bits are kept, the rest
\* rounds to nearest, ties to even.
RoundToF64(p) ==
    LET d == LimbsBitLength(p) - F64_MANTISSA_DIGITS
    IN  IF d <= 0 THEN p
        ELSE LET roundUp == /\ Bit(p, d - 1) = 1
                            /\ (~LowBitsZero(p, d - 1) \/ Bit(p, d) = 1)
                 kept    == ClearLowBits(p, d)
             IN  IF roundUp
                 THEN AddAt(kept, d \div LimbBits + 1, 2 ^ (d % LimbBits))
                 ELSE kept

RECURSIVE LimbsValue(_)
LimbsValue(p) == IF p = <<>> THEN 0 ELSE Head(p) + LimbBase * LimbsValue(Tail(p))

\* `x as i64` of a non-negative f64: the fraction is dropped.
IntegerPart(p) ==
    IF Len(p) <= FractionLimbs THEN 0
    ELSE LimbsValue(SubSeq(p, FractionLimbs + 1, Len(p)))

Magnitude(v) == IF v < 0 THEN 0 - v ELSE v

\* MulTruncate with the cast rounding down (floor) instead of toward zero.
MulFloor(v, factor) ==
    LET r == RoundToF64(MulLimbs(Magnitude(v), factor, 0))
        q == IntegerPart(r)
        exact == \A j \in 1..FractionLimbs : j > Len(r) \/ r[j] = 0
    IN  IF v < 0 THEN (IF exact THEN 0 - q ELSE 0 - (q + 1)) ELSE q

\* ((v as f64) * factor) as i64.  f64 is sign-magnitude: the product of the
\* magnitudes is rounded, the cast drops the fraction, the sign is v's.
MulTruncate(v, factor) ==
    LET q == IntegerPart(RoundToF64(MulLimbs(Magnitude(v), factor, 0)))
    IN  IF v < 0 THEN 0 - q ELSE q

-----------------------------------------------------------------------------
(* Character                                                               *)

\* HashMap::insert
Insert(map, key, value) ==
    [k \in (DOMAIN map) \cup {key} |-> IF k = key THEN value ELSE map[k]]

EmptyMap == [k \in {} |-> 0]

\* default_attributes with the Willpower line inserting Wisdom a second time.
default_attributes_wisdom_twice ==
    LET m0 == EmptyMap
        m1 == Insert(m0, "Charisma", 5)
        m2 == Insert(m1, "Constitution", 30)
        m3 == Insert(m2, "Defense", 15)
        m4 == Insert(m3, "Dexterity", 10)
        m5 == Insert(m4, "Intelligence", 5)
        m6 == Insert(m5, "Luck", 0)
        m7 == Insert(m6, "Perception", 10)
        m8 == Insert(m7, "Strength", 20)
        m9 == Insert(m8, "Wisdom", 15)
    IN  Insert(m9, "Wisdom", 5)

default_attributes ==
    LET m0 == EmptyMap
        m1 == Insert(m0, "Charisma", 5)
        m2 == Insert(m1, "Constitution", 30)
        m3 == Insert(m2, "Defense", 15)
        m4 == Insert(m3, "Dexterity", 10)
        m5 == Insert(m4, "Intelligence", 5)
        m6 == Insert(m5, "Luck", 0)
        m7 == Insert(m6, "Perception", 10)
        m8 == Insert(m7, "Strength", 20)
        m9 == Insert(m8, "Willpower", 15)
    IN  Insert(m9, "Wisdom", 5)

\* Inventory::new(30)
InventorySize == 30

NoCall == [op |-> "new", attribute |-> "", value |-> 0, item |-> None, ret |-> 0]

Call(op, attribute, value, item, ret) ==
    [op |-> op, attribute |-> attribute, value |-> value, item |-> item, ret |-> ret]

\* Character::new(name)
Init ==
    /\ name \in Names
    /\ health = default_attributes["Constitution"]
    /\ attributes = default_attributes
    /\ armor_slot_head = None
    /\ armor_slot_chest = None
    /\ armor_slot_legs = None
    /\ armor_slot_feet = None
    /\ weapon_slot_left = None
    /\ weapon_slot_right = None
    /\ inventory = InventorySize
    /\ panicked = NoPanic
    /\ last = NoCall
    /\ steps = 0

-----------------------------------------------------------------------------
(* Operations                                                              *)

Running == panicked = NoPanic

\* update_attribute clamping the value at zero.
UpdateAttributeClamped(attribute, value) ==
    /\ Running
    /\ steps < MaxSteps
    /\ steps' = steps + 1
    /\ last' = Call("update_attribute", attribute, value, None, 0)
    /\ IF attribute \in DOMAIN attributes
       THEN /\ attributes' = [attributes EXCEPT ![attribute] = IF value < 0 THEN 0 ELSE value]
            /\ panicked' = panicked
       ELSE /\ attributes' = attributes
            /\ panicked' = "AttributeNotFound"
    /\ UNCHANGED <<name, health, slots, inventory>>

\* update_attribute recomputing health from Constitution.
UpdateAttributeRecomputesHealth(attribute, value) ==
    /\ Running
    /\ steps < MaxSteps
    /\ steps' = steps + 1
    /\ last' = Call("update_attribute", attribute, value, None, 0)
    /\ IF attribute \in DOMAIN attributes
       THEN /\ attributes' = [attributes EXCEPT ![attribute] = value]
            /\ health' = attributes'["Constitution"]
            /\ panicked' = panicked
       ELSE /\ attributes' = attributes
            /\ health' = health
            /\ panicked' = "AttributeNotFound"
    /\ UNCHANGED <<name, slots, inventory>>

\* pub fn update_attribute(&mut self, attribute, value)
UpdateAttribute(attribute, value) ==
    /\ Running
    /\ steps < MaxSteps
    /\ steps' = steps + 1
    /\ last' = Call("update_attribute", attribute, value, None, 0)
    /\ IF attribute \in DOMAIN attributes
       THEN /\ attributes' = [attributes EXCEPT ![attribute] = value]
            /\ panicked' = panicked
       ELSE /\ attributes' = attributes
            /\ panicked' = "AttributeNotFound"
    /\ UNCHANGED <<name, health, slots, inventory>>

\* The block of attack_damage run for one weapon slot: what the slot adds to
\* additional_damage.
additional_damage(weapon_slot) ==
    IF weapon_slot # None /\ weapon_slot[1].influence # None
    THEN LET inner     == weapon_slot[1].influence[1]
             influence == IF inner.attribute = "Dexterity"
                          THEN DEXTERITY_INFLUENCE
                          ELSE ONE_F64
         IN  MulTruncate(inner.amount, influence)
    ELSE 0

base_dexterity(attrs) == MulTruncate(attrs["Dexterity"], DEXTERITY_INFLUENCE)

base_strength(attrs) == attrs["Strength"]

\* attack_damage without the block for the right weapon slot.
attack_damage_left_only(attrs, left, right) ==
    base_strength(attrs) + base_dexterity(attrs) + additional_damage(left)

\* The value attack_damage returns when both attributes are present.
attack_damage(attrs, left, right) ==
    base_strength(attrs) + base_dexterity(attrs)
        + (additional_damage(left) + additional_damage(right))

\* pub fn attack_damage(&self) -> AttributeValue
AttackDamage ==
    /\ Running
    /\ IF {"Dexterity", "Strength"} \subseteq DOMAIN attributes
       THEN /\ last' = Call("attack_damage", "", 0, None,
                            attack_damage(attributes, weapon_slot_left, weapon_slot_right))
            /\ panicked' = panicked
       ELSE /\ last' = Call("attack_damage", "", 0, None, 0)
            /\ panicked' = "AttributeNotFound"
    /\ UNCHANGED <<name, health, attributes, slots, inventory, steps>>

\* pub fn get_attribute_value(&self, attribute) -> AttributeValue
GetAttributeValue(attribute) ==
    /\ Running
    /\ IF attribute \in DOMAIN attributes
       THEN /\ last' = Call("get_attribute_value", attribute, 0, None, attributes[attribute])
            /\ panicked' = panicked
       ELSE /\ last' = Call("get_attribute_value", attribute, 0, None, 0)
            /\ panicked' = "AttributeNotFound"
    /\ UNCHANGED <<name, health, attributes, slots, inventory, steps>>

\* The armor setters without their assertion.
TypeAcceptedAlways(item, expected) == TRUE

\* assert_eq!(inner_item.item_type, expected) under `if let Some(ref inner_item) = item`
TypeAccepted(item, expected) == item = None \/ item[1].item_type = expected

\* pub fn set_armor_slot_head(&mut self, item: Option<Item>)
SetArmorSlotHead(item) ==
    /\ Running
    /\ steps < MaxSteps
    /\ steps' = steps + 1
    /\ last' = Call("set_armor_slot_head", "", 0, item, 0)
    /\ IF TypeAccepted(item, "ArmorHead")
       THEN /\ armor_slot_head' = item
            /\ panicked' = panicked
       ELSE /\ armor_slot_head' = armor_slot_head
            /\ panicked' = "SlotTypeMismatch"
    /\ UNCHANGED <<name, health, attributes, armor_slot_chest, armor_slot_legs,
                   armor_slot_feet, weapon_slot_left, weapon_slot_right, inventory>>

\* set_armor_slot_chest asserting the head category.
SetArmorSlotChestAssertsHead(item) ==
    /\ Running
    /\ steps < MaxSteps
    /\ steps' = steps + 1
    /\ last' = Call("set_armor_slot_chest", "", 0, item, 0)
    /\ IF item = None \/ item[1].item_type = "ArmorHead"
       THEN /\ armor_slot_chest' = item
            /\ panicked' = panicked
       ELSE /\ armor_slot_chest' = armor_slot_chest
            /\ panicked' = "SlotTypeMismatch"
    /\ UNCHANGED <<name, health, attributes, armor_slot_head, armor_slot_legs,
                   armor_slot_feet, weapon_slot_left, weapon_slot_right, inventory>>

\* pub fn set_armor_slot_chest(&mut self, item: Option<Item>)
SetArmorSlotChest(item) ==
    /\ Running
    /\ steps < MaxSteps
    /\ steps' = steps + 1
    /\ last' = Call("set_armor_slot_chest", "", 0, item, 0)
    /\ IF TypeAccepted(item, "ArmorChest")
       THEN /\ armor_slot_chest' = item
            /\ panicked' = panicked
       ELSE /\ armor_slot_chest' = armor_slot_chest
            /\ panicked' = "SlotTypeMismatch"
    /\ UNCHANGED <<name, health, attributes, armor_slot_head, armor_slot_legs,
                   armor_slot_feet, weapon_slot_left, weapon_slot_right, inventory>>

\* set_armor_slot_legs storing into the feet slot as well.
SetArmorSlotLegsWritesFeet(item) ==
    /\ Running
    /\ steps < MaxSteps
    /\ steps' = steps + 1
    /\ last' = Call("set_armor_slot_legs", "", 0, item, 0)
    /\ IF item = None \/ item[1].item_type = "ArmorLegs"
       THEN /\ armor_slot_legs' = item
            /\ armor_slot_feet' = None
            /\ panicked' = panicked
       ELSE /\ armor_slot_legs' = armor_slot_legs
            /\ armor_slot_feet' = armor_slot_feet
            /\ panicked' = "SlotTypeMismatch"
    /\ UNCHANGED <<name, health, attributes, armor_slot_head, armor_slot_chest,
                   weapon_slot_left, weapon_slot_right, inventory>>

\* pub fn set_armor_slot_legs(&mut self, item: Option<Item>)
SetArmorSlotLegs(item) ==
    /\ Running
    /\ steps < MaxSteps
    /\ steps' = steps + 1
    /\ last' = Call("set_armor_slot_legs", "", 0, item, 0)
    /\ IF TypeAccepted(item, "ArmorLegs")
       THEN /\ armor_slot_legs' = item
            /\ panicked' = panicked
       ELSE /\ armor_slot_legs' = armor_slot_legs
            /\ panicked' = "SlotTypeMismatch"
    /\ UNCHANGED <<name, health, attributes, armor_slot_head, armor_slot_chest,
                   armor_slot_feet, weapon_slot_left, weapon_slot_right, inventory>>

\* set_armor_slot_feet assigning only inside `if let Some(..)`.
SetArmorSlotFeetIgnoresNone(item) ==
    /\ Running
    /\ steps < MaxSteps
    /\ steps' = steps + 1
    /\ last' = Call("set_armor_slot_feet", "", 0, item, 0)
    /\ IF item = None
       THEN /\ armor_slot_feet' = armor_slot_feet
            /\ panicked' = panicked
       ELSE IF item[1].item_type = "ArmorFeet"
       THEN /\ armor_slot_feet' = item
            /\ panicked' = panicked
       ELSE /\ armor_slot_feet' = armor_slot_feet
            /\ panicked' = "SlotTypeMismatch"
    /\ UNCHANGED <<name, health, attributes, armor_slot_head, armor_slot_chest,
                   armor_slot_legs, weapon_slot_left, weapon_slot_right, inventory>>

\* pub fn set_armor_slot_feet(&mut self, item: Option<Item>)
SetArmorSlotFeet(item) ==
    /\ Running
    /\ steps < MaxSteps
    /\ steps' = steps + 1
    /\ last' = Call("set_armor_slot_feet", "", 0, item, 0)
    /\ IF TypeAccepted(item, "ArmorFeet")
       THEN /\ armor_slot_feet' = item
            /\ panicked' = panicked
       ELSE /\ armor_slot_feet' = armor_slot_feet
            /\ panicked' = "SlotTypeMismatch"
    /\ UNCHANGED <<name, health, attributes, armor_slot_head, armor_slot_chest,
                   armor_slot_legs, weapon_slot_left, weapon_slot_right, inventory>>

\* pub fn set_weapon_slot_right(&mut self, item: Option<Item>)
SetWeaponSlotRight(item) ==
    /\ Running
    /\ steps < MaxSteps
    /\ steps' = steps + 1
    /\ last' = Call("set_weapon_slot_right", "", 0, item, 0)
    /\ weapon_slot_right' = item
    /\ UNCHANGED <<name, health, attributes, armor_slot_head, armor_slot_chest,
                   armor_slot_legs, armor_slot_feet, weapon_slot_left, inventory,
                   panicked>>

\* set_weapon_slot_left asserting a weapon category, as the armor setters do.
SetWeaponSlotLeftAssertsWeapon(item) ==
    /\ Running
    /\ steps < MaxSteps
    /\ steps' = steps + 1
    /\ last' = Call("set_weapon_slot_left", "", 0, item, 0)
    /\ IF item = None \/ item[1].item_type \in {"WeaponSword", "WeaponHammer"}
       THEN /\ weapon_slot_left' = item
            /\ panicked' = panicked
       ELSE /\ weapon_slot_left' = weapon_slot_left
            /\ panicked' = "SlotTypeMismatch"
    /\ UNCHANGED <<name, health, attributes, armor_slot_head, armor_slot_chest,
                   armor_slot_legs, armor_slot_feet, weapon_slot_right, inventory>>

\* pub fn set_weapon_slot_left(&mut self, item: Option<Item>)
SetWeaponSlotLeft(item) ==
    /\ Running
    /\ steps < MaxSteps
    /\ steps' = steps + 1
    /\ last' = Call("set_weapon_slot_left", "", 0, item, 0)
    /\ weapon_slot_left' = item
    /\ UNCHANGED <<name, health, attributes, armor_slot_head, armor_slot_chest,
                   armor_slot_legs, armor_slot_feet, weapon_slot_right, inventory,
                   panicked>>

-----------------------------------------------------------------------------
(* Specifications                                                          *)

\* The items handed to the setters in Spec: one item of every type without an
\* influence, swords with a dampened (Dexterity) and an undampened influence,
\* and a piece of head armor that carries an influence.
Items ==
    {Item(t, None) : t \in ItemType}
        \cup {Item("WeaponSword", Some(ItemInfluence("Dexterity", 10))),
              Item("WeaponSword", Some(ItemInfluence("Dexterity", -7))),
              Item("WeaponSword", Some(ItemInfluence("Strength", 10))),
              Item("WeaponSword", Some(ItemInfluence("Charisma", 10))),
              Item("ArmorHead", Some(ItemInfluence("Strength", 10)))}

OptionalItems == {None} \cup {Some(it) : it \in Items}

Next ==
    \/ \E a \in Attribute, v \in UpdateValues : UpdateAttribute(a, v)
    \/ AttackDamage
    \/ \E a \in Attribute : GetAttributeValue(a)
    \/ \E item \in OptionalItems : SetArmorSlotHead(item)
    \/ \E item \in OptionalItems : SetArmorSlotChest(item)
    \/ \E item \in OptionalItems : SetArmorSlotLegs(item)
    \/ \E item \in OptionalItems : SetArmorSlotFeet(item)
    \/ \E item \in OptionalItems : SetWeaponSlotRight(item)
    \/ \E item \in OptionalItems : SetWeaponSlotLeft(item)

Spec == Init /\ [][Next]_vars

\* The 0.2-scaled terms swept over ScaledRange: Dexterity itself, and a sword
\* carrying a Dexterity influence in the left weapon slot.
ScaledItems ==
    {Some(Item("WeaponSword", Some(ItemInfluence("Dexterity", n)))) : n \in ScaledRange}

NextScaled ==
    \/ \E v \in ScaledRange : UpdateAttribute("Dexterity", v)
    \/ \E item \in ScaledItems : SetWeaponSlotLeft(item)
    \/ AttackDamage

SpecScaled == Init /\ [][NextScaled]_vars

-----------------------------------------------------------------------------
(* Properties                                                              *)

ArmorSetters == {"set_armor_slot_head", "set_armor_slot_chest",
                 "set_armor_slot_legs", "set_armor_slot_feet"}

WeaponSetters == {"set_weapon_slot_left", "set_weapon_slot_right"}

Setters == ArmorSetters \cup WeaponSetters

\* The slot a setter writes.
SlotOf(op) ==
    CASE op = "set_armor_slot_head"   -> armor_slot_head
      [] op = "set_armor_slot_chest"  -> armor_slot_chest
      [] op = "set_armor_slot_legs"   -> armor_slot_legs
      [] op = "set_armor_slot_feet"   -> armor_slot_feet
      [] op = "set_weapon_slot_left"  -> weapon_slot_left
      [] op = "set_weapon_slot_right" -> weapon_slot_right

\* The five slots a setter does not write.
SlotsExcept(op) == [s \in Setters \ {op} |-> SlotOf(s)]

\* The category an armor slot is bound to.
BoundCategory(op) ==
    CASE op = "set_armor_slot_head"  -> "ArmorHead"
      [] op = "set_armor_slot_chest" -> "ArmorChest"
      [] op = "set_armor_slot_legs"  -> "ArmorLegs"
      [] op = "set_armor_slot_feet"  -> "ArmorFeet"

\* The integer quotient of v by 5, rounded toward zero.
QuotientTowardZero5(v) == IF v >= 0 THEN v \div 5 ELSE 0 - ((0 - v) \div 5)

\* What a weapon slot is to add to the attack damage.
SlotContribution(slot) ==
    IF slot = None THEN 0
    ELSE IF slot[1].influence = None THEN 0
    ELSE IF slot[1].influence[1].attribute = "Dexterity"
         THEN QuotientTowardZero5(slot[1].influence[1].amount)
    ELSE slot[1].influence[1].amount

StrengthSword == Some(Item("WeaponSword", Some(ItemInfluence("Strength", 10))))

DexteritySword(n) == Some(Item("WeaponSword", Some(ItemInfluence("Dexterity", n))))

DefaultValue(a) ==
    CASE a = "Charisma"     -> 5
      [] a = "Constitution" -> 30
      [] a = "Defense"      -> 15
      [] a = "Dexterity"    -> 10
      [] a = "Intelligence" -> 5
      [] a = "Luck"         -> 0
      [] a = "Perception"   -> 10
      [] a = "Strength"     -> 20
      [] a = "Willpower"    -> 15
      [] a = "Wisdom"       -> 5

\* C1: whenever attack_damage has just returned, its result is Strength plus
\* the quotient toward zero of Dexterity by 5 plus the contributions of the
\* left and the right weapon slot, all taken from the current attributes and
\* the current slot contents; a fresh character yields 22, and a fresh
\* character with a (Strength, 10) item in both weapon slots yields 42.
C1_AttackDamage ==
    last.op = "attack_damage" =>
        /\ panicked = NoPanic
        /\ last.ret = attributes["Strength"]
                        + QuotientTowardZero5(attributes["Dexterity"])
                        + SlotContribution(weapon_slot_left)
                        + SlotContribution(weapon_slot_right)
        /\ steps = 0 => last.ret = 22
        /\ (/\ weapon_slot_left = StrengthSword
            /\ weapon_slot_right = StrengthSword
            /\ \A a \in Attribute : attributes[a] = DefaultValue(a)) => last.ret = 42

\* attack_damage called after Dexterity was set to -7 and a (Dexterity, -7)
\* sword was put into the left slot: 20 - 1 - 1.
C1_Witness ==
    /\ last.op = "attack_damage"
    /\ attributes["Dexterity"] = -7
    /\ weapon_slot_left = DexteritySword(-7)
    /\ weapon_slot_right = None
    /\ last.ret = 18

\* C2: an armor setter called with an item of any category other than the
\* slot's bound category panics with SlotTypeMismatch and does not store the
\* item.
C2_ArmorMismatchFails ==
    \A op \in ArmorSetters :
        (/\ last.op = op
         /\ last.item # None
         /\ last.item[1].item_type # BoundCategory(op))
            => /\ panicked = "SlotTypeMismatch"
               /\ SlotOf(op) # last.item

\* The chest setter was handed a piece of head armor.
C2_Witness ==
    /\ last.op = "set_armor_slot_chest"
    /\ last.item = Some(Item("ArmorHead", None))
    /\ panicked = "SlotTypeMismatch"
    /\ armor_slot_chest = None

\* C3: get_attribute_value(a) called right after update_attribute(a, v)
\* returns v, and neither call panics.
C3_UpdateThenGet ==
    [][/\ last'.op = "update_attribute" => panicked' = NoPanic
       /\ (/\ last.op = "update_attribute"
           /\ last'.op = "get_attribute_value"
           /\ last'.attribute = last.attribute)
              => /\ last'.ret = last.value
                 /\ panicked' = NoPanic]_vars

\* A negative value written to Luck and read back.
C3_Witness ==
    /\ last.op = "get_attribute_value"
    /\ last.attribute = "Luck"
    /\ last.ret = -7
    /\ panicked = NoPanic

\* C4: a setter called with an item its slot accepts (the bound category for
\* an armor slot, any category for a weapon slot) does not panic and leaves
\* the slot holding exactly that item.
C4_AcceptedItemStored ==
    \A op \in Setters :
        (/\ last.op = op
         /\ last.item # None
         /\ (op \in ArmorSetters => last.item[1].item_type = BoundCategory(op)))
            => /\ panicked = NoPanic
               /\ SlotOf(op) = last.item

\* A piece of chest armor was put into the left weapon slot as the second
\* call of the run.
C4_Witness ==
    /\ last.op = "set_weapon_slot_left"
    /\ steps = 2
    /\ weapon_slot_left = Some(Item("ArmorChest", None))
    /\ panicked = NoPanic

\* The operations `impl Character` declares `pub fn`.
PublicOperations ==
    {"new", "update_attribute", "attack_damage", "get_attribute_value",
     "set_armor_slot_head", "set_armor_slot_chest", "set_armor_slot_legs",
     "set_armor_slot_feet", "set_weapon_slot_right", "set_weapon_slot_left",
     "default_attributes"}

\* The accessor the claim reads a slot through.
SlotAccessor(op) == IF op \in ArmorSetters THEN "get_armor" ELSE "get_weapon"

\* C5 (as amended): a setter called with None does not panic and leaves its
\* slot empty, as seen in the slot field itself.
C5_ClearSlot ==
    \A op \in Setters :
        (last.op = op /\ last.item = None)
            => /\ panicked = NoPanic
               /\ SlotOf(op) = None

\* The head slot was cleared as the second call of the run.
C5_Witness ==
    /\ last.op = "set_armor_slot_head"
    /\ last.item = None
    /\ steps = 2
    /\ armor_slot_head = None

\* C5 as stated: the cleared slot is empty and is read through get_armor or
\* get_weapon, an operation of Character.
C5_AsStated ==
    \A op \in Setters :
        (last.op = op /\ last.item = None)
            => /\ panicked = NoPanic
               /\ SlotOf(op) = None
               /\ SlotAccessor(op) \in PublicOperations

\* C6: every armor slot is empty or holds an item of its bound category, and
\* all six slots are empty right after construction.
C6_ArmorSlotsTyped ==
    /\ \A op \in ArmorSetters :
          SlotOf(op) = None \/ SlotOf(op)[1].item_type = BoundCategory(op)
    /\ last.op = "new" => \A op \in Setters : SlotOf(op) = None

\* Head and feet armor are both equipped.
C6_Witness ==
    /\ armor_slot_head = Some(Item("ArmorHead", Some(ItemInfluence("Strength", 10))))
    /\ armor_slot_feet = Some(Item("ArmorFeet", None))

\* C7: the base Dexterity term and the term of a Dexterity-tagged weapon
\* influence are the quotient of the value by 5 rounded toward zero, for
\* every value of ScaledRange, and the two terms agree on equal values.
C7_ScaledTermsTruncate ==
    /\ base_dexterity(attributes) = QuotientTowardZero5(attributes["Dexterity"])
    /\ weapon_slot_left # None =>
          LET amount == weapon_slot_left[1].influence[1].amount
          IN  /\ additional_damage(weapon_slot_left) = QuotientTowardZero5(amount)
              /\ amount = attributes["Dexterity"] =>
                    additional_damage(weapon_slot_left) = base_dexterity(attributes)
    /\ last.op = "attack_damage" =>
          last.ret = attributes["Strength"]
                       + QuotientTowardZero5(attributes["Dexterity"])
                       + SlotContribution(weapon_slot_left)

\* Both terms at -7: each is -1, not -2.
C7_Witness ==
    /\ last.op = "attack_damage"
    /\ attributes["Dexterity"] = -7
    /\ weapon_slot_left = DexteritySword(-7)
    /\ base_dexterity(attributes) = -1
    /\ additional_damage(weapon_slot_left) = -1
    /\ last.ret = 18

\* C8: health is the initial Constitution value, 30, in every state.
C8_HealthFrozen == health = 30

\* Constitution was changed and health was not.
C8_Witness ==
    /\ attributes["Constitution"] = 42
    /\ health = 30

\* C9: the attribute map holds exactly the ten attributes in every state,
\* with the default values right after construction, and no operation
\* panics with AttributeNotFound.
C9_TenAttributes ==
    /\ DOMAIN attributes = Attribute
    /\ Cardinality(DOMAIN attributes) = 10
    /\ panicked # "AttributeNotFound"
    /\ last.op = "new" => \A a \in Attribute : attributes[a] = DefaultValue(a)

\* Willpower was updated and then read.
C9_Witness ==
    /\ last.op = "get_attribute_value"
    /\ last.attribute = "Willpower"
    /\ last.ret = 42
    /\ panicked = NoPanic

\* C10: update_attribute changes only the value of its attribute, a slot
\* setter changes only its slot, and attack_damage and get_attribute_value
\* change nothing of the character.
C10_Frame ==
    [][/\ last'.op = "update_attribute" =>
            /\ DOMAIN attributes' = DOMAIN attributes
            /\ \A a \in (DOMAIN attributes) \ {last'.attribute} :
                  attributes'[a] = attributes[a]
            /\ UNCHANGED <<slots, name, health>>
       /\ \A op \in Setters :
            last'.op = op =>
                /\ SlotsExcept(op)' = SlotsExcept(op)
                /\ UNCHANGED <<attributes, name, health>>
       /\ last'.op \in {"attack_damage", "get_attribute_value"} =>
            UNCHANGED <<name, health, attributes, slots, inventory>>]_vars

\* The legs setter ran and the feet slot still holds what an earlier call
\* put there.
C10_Witness ==
    /\ last.op = "set_armor_slot_legs"
    /\ armor_slot_legs = Some(Item("ArmorLegs", None))
    /\ armor_slot_feet = Some(Item("ArmorFeet", None))

====
